---- MODULE Spec2Model ----
(***************************************************************************)
(* app/repository/__init__.py: AbstractRepository and                      *)
(* ElevatorDemandRepository, the CRUD repository over one table of         *)
(* elevator demands, driven through a sqlalchemy.orm Session.              *)
(*                                                                         *)
(* table    the committed rows of the elevator-demand table, in the order  *)
(*          the engine returns them                                        *)
(* session  self.session: the unit of work (pending inserts, modified      *)
(*          instances, instances marked for deletion) and whether its      *)
(*          transaction is still usable                                    *)
(* call     the repository call that was made last                         *)
(* result   what that call gave its caller: a returned value or a raised   *)
(*          error                                                          *)
(* prior, created   history: the size of the table at the last deletion    *)
(*          (or at the start) and the ids returned by create since then    *)
(*                                                                         *)
(* The session calls (add, delete, commit, refresh, query) are modelled by *)
(* what sqlalchemy's Session does at the line that makes the call.         *)
(***************************************************************************)
EXTENDS Integers, Sequences, FiniteSets, TLC

VARIABLES table, session, call, result, prior, created

vars == <<table, session, call, result, prior, created>>

\* ---------------------------------------------------------------- bounds
\* Number of distinct identifiers the storage can generate.
MaxIds == 3
\* Rows the table may hold (create is not called on a table this full).
MaxRows == 2
\* Pending inserts a session whose transaction is unusable may accumulate.
MaxPending == 1

Ids == 1..MaxIds

\* ---------------------------------------------------------------- values
\* Python's None.
None == [none |-> TRUE]

\* bool(x) with the sense reversed.
bool_negated(x) == x = None

\* bool(x) of an ORM instance or None.
bool(x) == x # None

Return(v) == [kind |-> "return", value |-> v]
Raise(e) == [kind |-> "raise", value |-> e]

\* The value "no exception" of a session call, and the errors a session
\* call can raise on its own: a commit a constraint violation or a lost
\* connection, a query a lost connection.
NoError == "none"
CommitErrors == {"IntegrityError", "OperationalError"}
QueryErrors == {"OperationalError"}

\* app.schemas.ElevatorDemandInput: {origin, destination}; the inputs a caller
\* passes.
ElevatorDemandInput ==
    {[origin |-> "A", destination |-> "B"], [origin |-> "C", destination |-> "D"]}

\* The instance built with the two fields exchanged.
ElevatorDemand_swapped(item) ==
    [origin |-> item.destination, destination |-> item.origin]

\* ElevatorDemand(**item.model_dump()): a transient instance, id not yet set.
ElevatorDemand(item) == [origin |-> item.origin, destination |-> item.destination]

\* The output built with the two fields exchanged.
ElevatorDemandOutput_swapped(id, origin, destination) ==
    [id |-> id, origin |-> destination, destination |-> origin]

\* ElevatorDemandOutput(id=..., origin=..., destination=...).
ElevatorDemandOutput(id, origin, destination) ==
    [id |-> id, origin |-> origin, destination |-> destination]

\* ElevatorDemandOutput(**item.__dict__) of a loaded instance.
OutputOfDict(item) == ElevatorDemandOutput(item.id, item.origin, item.destination)

\* The ids of the rows of a table.
IdsOf(t) == {t[i].id : i \in 1..Len(t)}

\* The identifiers the storage may generate for n rows inserted into t:
\* n distinct identifiers, none of them the id of a stored row.
uuid4s(t, n) ==
    {u \in [1..n -> Ids \ IdsOf(t)] : \A i, j \in 1..n : u[i] = u[j] => i = j}

\* ---------------------------------------------------------------- session
\* A session with nothing staged.
CleanSession == [new |-> <<>>, dirty |-> {}, deleted |-> {}, active |-> TRUE]

\* self.session.add(demand): the instance becomes pending.
session_add(s, instance) == [s EXCEPT !.new = Append(@, instance)]

\* An attribute assignment the session does not notice.
session_modified_lost(s, item) == s

\* item.origin = ...; item.destination = ... on a persistent instance: the
\* instance, with its new attribute values, is in session.dirty.
session_modified(s, item) ==
    [s EXCEPT !.dirty = {d \in @ : d.id # item.id} \cup {item}]

\* A delete that marks nothing.
session_delete_unmarked(s, item) == s

\* self.session.delete(item): the instance is marked for deletion.
session_delete(s, item) == [s EXCEPT !.deleted = @ \cup {item.id}]

\* A flush whose UPDATE has no WHERE clause.
flush_update_all(t, s, uuids) ==
    LET updated == [i \in 1..Len(t) |->
                      IF s.dirty # {}
                      THEN [(CHOOSE d \in s.dirty : TRUE) EXCEPT !.id = t[i].id]
                      ELSE t[i]]
        inserted == [i \in 1..Len(s.new) |->
                      [id |-> uuids[i], origin |-> s.new[i].origin,
                       destination |-> s.new[i].destination]]
    IN SelectSeq(updated \o inserted, LAMBDA r : r.id \notin s.deleted)

\* The flush of a commit: UPDATE the modified rows, INSERT the pending
\* instances with their generated ids, DELETE the marked rows.
flush(t, s, uuids) ==
    LET updated == [i \in 1..Len(t) |->
                      IF \E d \in s.dirty : d.id = t[i].id
                      THEN CHOOSE d \in s.dirty : d.id = t[i].id
                      ELSE t[i]]
        inserted == [i \in 1..Len(s.new) |->
                      [id |-> uuids[i], origin |-> s.new[i].origin,
                       destination |-> s.new[i].destination]]
    IN SelectSeq(updated \o inserted, LAMBDA r : r.id \notin s.deleted)

\* A failed commit that rolls nothing back and leaves the session as it is.
commit_raises_keeps(t, s, error) == [table |-> t, session |-> s, error |-> error]

\* self.session.commit() raising: the transaction is rolled back, the pending
\* instances are expunged, the modified ones expired, the deleted ones
\* restored, and the session's transaction is unusable until a rollback().
commit_raises(t, s, error) ==
    [table |-> t, session |-> [CleanSession EXCEPT !.active = FALSE], error |-> error]

\* self.session.commit(): [table, session, error].  A session whose
\* transaction is unusable raises and keeps what is staged.
session_commit(t, s, uuids, fault, error) ==
    IF ~s.active
    THEN [table |-> t, session |-> s, error |-> "PendingRollbackError"]
    ELSE IF fault = "commit"
    THEN commit_raises(t, s, error)
    ELSE [table |-> flush(t, s, uuids), session |-> CleanSession, error |-> NoError]

\* .first() of a query result.
first(rows) == IF rows = <<>> THEN None ELSE Head(rows)

\* A query that forgets its filter.
filter_by_any(t, item_id) == t

\* self.session.query(ElevatorDemand).filter_by(id=item_id)
filter_by(t, item_id) == SelectSeq(t, LAMBDA r : r.id = item_id)

\* A query that stops at the first row.
query_all_first(t) == IF t = <<>> THEN <<>> ELSE <<Head(t)>>

\* self.session.query(ElevatorDemand).all()
query_all(t) == t

\* self.session.refresh(instance): the row of the instance, read again.
session_refresh(t, id) == first(filter_by(t, id))

\* ---------------------------------------------------------------- AbstractRepository
AbstractRepository_create == Raise("NotImplementedError")
AbstractRepository_get_all == Raise("NotImplementedError")
AbstractRepository_get_item == Raise("NotImplementedError")
AbstractRepository_update == Raise("NotImplementedError")
\* An abstract method whose body does nothing.
AbstractRepository_delete_pass == Return(None)
AbstractRepository_delete == Raise("NotImplementedError")

Methods == {"create", "get_all", "get_item", "update", "delete"}

AbstractRepository(method) ==
    CASE method = "create" -> AbstractRepository_create
      [] method = "get_all" -> AbstractRepository_get_all
      [] method = "get_item" -> AbstractRepository_get_item
      [] method = "update" -> AbstractRepository_update
      [] method = "delete" -> AbstractRepository_delete

\* ---------------------------------------------------------------- ElevatorDemandRepository
\* What a method leaves behind: the table, the session, and its result.
Outcome(t, s, r) == [table |-> t, session |-> s, result |-> r]

\* The session after a query that raised after the commit: whether its
\* transaction is still usable depends on the error.
AfterError(s, usable) == [s EXCEPT !.active = usable]

create(t, s, item, uuids, fault, error, usable) ==
    LET demand == ElevatorDemand(item)
        s1 == session_add(s, demand)
        c == session_commit(t, s1, uuids, fault, error)
        id == uuids[Len(s1.new)]
        loaded == session_refresh(c.table, id)
    IN IF c.error # NoError
       THEN Outcome(c.table, c.session, Raise(c.error))
       ELSE IF fault = "refresh"
       THEN Outcome(c.table, AfterError(c.session, usable), Raise(error))
       ELSE IF loaded = None
       THEN Outcome(c.table, c.session, Raise("InvalidRequestError"))
       ELSE Outcome(c.table, c.session,
                    Return(ElevatorDemandOutput(loaded.id, loaded.origin,
                                                loaded.destination)))

get_all(t, s) ==
    IF ~s.active
    THEN Outcome(t, s, Raise("PendingRollbackError"))
    ELSE LET items == query_all(t)
         IN Outcome(t, s, Return([i \in 1..Len(items) |-> OutputOfDict(items[i])]))

get_item(t, s, item_id) ==
    IF ~s.active
    THEN Outcome(t, s, Raise("PendingRollbackError"))
    ELSE Outcome(t, s, Return(first(filter_by(t, item_id))))

update(t, s, item, new_data, uuids, fault, error, usable) ==
    LET item1 == [item EXCEPT !.origin = new_data.origin]
        item2 == [item1 EXCEPT !.destination = new_data.destination]
        s1 == session_modified(s, item2)
        c == session_commit(t, s1, uuids, fault, error)
        loaded == session_refresh(c.table, item.id)
    IN IF c.error # NoError
       THEN Outcome(c.table, c.session, Raise(c.error))
       ELSE IF fault = "refresh"
       THEN Outcome(c.table, AfterError(c.session, usable), Raise(error))
       ELSE IF loaded = None
       THEN Outcome(c.table, c.session, Raise("InvalidRequestError"))
       ELSE Outcome(c.table, c.session, Return(OutputOfDict(loaded)))

delete(t, s, item, uuids, fault, error, usable) ==
    LET id_ == item.id
        s1 == session_delete(s, item)
        c == session_commit(t, s1, uuids, fault, error)
    IN IF c.error # NoError
       THEN Outcome(c.table, c.session, Raise(c.error))
       ELSE IF fault = "query"
       THEN Outcome(c.table, AfterError(c.session, usable), Raise(error))
       ELSE Outcome(c.table, c.session, Return(bool(first(filter_by(c.table, id_)))))

\* The live records a caller can hold: what get_item returns now.
LiveRecords ==
    {get_item(table, session, id).result.value : id \in
        {i \in Ids : get_item(table, session, i).result.kind = "return"
                     /\ get_item(table, session, i).result.value # None}}

\* ---------------------------------------------------------------- steps
Repo == "ElevatorDemandRepository"

Call(recv, method, args, fault, error) ==
    [recv |-> recv, method |-> method, args |-> args, fault |-> fault, error |-> error]

\* One call of a repository method and what it leaves behind.
Step(method, args, fault, error, o) ==
    /\ call' = Call(Repo, method, args, fault, error)
    /\ table' = o.table
    /\ session' = o.session
    /\ result' = o.result
    /\ IF method = "create" /\ o.result.kind = "return"
       THEN /\ created' = Append(created, o.result.value.id)
            /\ prior' = prior
       ELSE IF Len(o.table) # Len(table)
       THEN /\ created' = <<>>
            /\ prior' = Len(o.table)
       ELSE UNCHANGED <<created, prior>>

Create ==
    /\ Len(table) < MaxRows
    /\ Len(session.new) < MaxPending
    /\ \E item \in ElevatorDemandInput :
         \E uuids \in uuid4s(table, Len(session.new) + 1) :
            Step("create", [item |-> item], "none", NoError,
                 create(table, session, item, uuids, "none", NoError, TRUE))

GetAll ==
    /\ Step("get_all", <<>>, "none", NoError, get_all(table, session))

GetItem ==
    \E item_id \in Ids :
        Step("get_item", [item_id |-> item_id], "none", NoError,
             get_item(table, session, item_id))

Update ==
    \E item \in LiveRecords, new_data \in ElevatorDemandInput :
      \E uuids \in uuid4s(table, Len(session.new)) :
        Step("update", [item |-> item, new_data |-> new_data], "none", NoError,
             update(table, session, item, new_data, uuids, "none", NoError, TRUE))

Delete ==
    \E item \in LiveRecords :
      \E uuids \in uuid4s(table, Len(session.new)) :
        Step("delete", [item |-> item], "none", NoError,
             delete(table, session, item, uuids, "none", NoError, TRUE))

AbstractCall ==
    /\ \E method \in Methods :
         /\ call' = Call("AbstractRepository", method, <<>>, "none", NoError)
         /\ result' = AbstractRepository(method)
    /\ UNCHANGED <<table, session, prior, created>>

\* The rows the table may hold when the repository is constructed.
InitTables ==
    {<<>>} \cup {<<[id |-> id, origin |-> d.origin, destination |-> d.destination]>> :
                    id \in Ids, d \in ElevatorDemandInput}

Init ==
    /\ table \in InitTables
    /\ session = CleanSession
    /\ call = Call(Repo, "__init__", <<>>, "none", NoError)
    /\ result = Return(None)
    /\ prior = Len(table)
    /\ created = <<>>

Next ==
    \/ Create
    \/ GetAll
    \/ GetItem
    \/ Update
    \/ Delete
    \/ AbstractCall

Spec == Init /\ [][Next]_vars

\* ---------------------------------------------------------------- storage failures
\* The same calls with one session call raising: the commit, or the query
\* that follows it (the refresh of create and update, the re-query of delete).
Faults(after) ==
    [fault : {"commit"}, error : CommitErrors, usable : {FALSE}]
        \cup [fault : {after}, error : QueryErrors, usable : BOOLEAN]

CreateFails ==
    /\ session.active
    /\ Len(table) < MaxRows
    /\ \E item \in ElevatorDemandInput, f \in Faults("refresh") :
         \E uuids \in uuid4s(table, Len(session.new) + 1) :
            Step("create", [item |-> item], f.fault, f.error,
                 create(table, session, item, uuids, f.fault, f.error, f.usable))

UpdateFails ==
    /\ session.active
    /\ \E item \in LiveRecords, new_data \in ElevatorDemandInput,
          f \in Faults("refresh") :
         \E uuids \in uuid4s(table, Len(session.new)) :
            Step("update", [item |-> item, new_data |-> new_data], f.fault, f.error,
                 update(table, session, item, new_data, uuids, f.fault, f.error,
                        f.usable))

DeleteFails ==
    /\ session.active
    /\ \E item \in LiveRecords, f \in Faults("query") :
         \E uuids \in uuid4s(table, Len(session.new)) :
            Step("delete", [item |-> item], f.fault, f.error,
                 delete(table, session, item, uuids, f.fault, f.error, f.usable))

NextF ==
    \/ Next
    \/ CreateFails
    \/ UpdateFails
    \/ DeleteFails

SpecF == Init /\ [][NextF]_vars

\* ---------------------------------------------------------------- properties
\* The last call was this method of the concrete repository.
Called(method) == call.recv = Repo /\ call.method = method
Returned(method) == Called(method) /\ result.kind = "return"

\* What get_item(item_id) would give the caller in this state.
Lookup(t, s, item_id) == get_item(t, s, item_id).result

\* The rows of a table, as a set.
Rows(t) == {t[i] : i \in 1..Len(t)}

\* C1: after create(input) has returned, get_item(returned.id) yields a
\* record whose origin and destination are the input's.
C1_CreateThenGetItem ==
    Returned("create") =>
        LET got == Lookup(table, session, result.value.id)
        IN /\ got.kind = "return"
           /\ got.value # None
           /\ got.value.origin = call.args.item.origin
           /\ got.value.destination = call.args.item.destination

C1_Witness ==
    /\ Returned("create")
    /\ Len(table) = 2
    /\ call.args.item.origin # call.args.item.destination
    /\ Lookup(table, session, result.value.id).value.origin = call.args.item.origin

\* C2: after update(record, new_input) has returned, its output carries the
\* record's id and new_input's fields, and get_item(record.id) yields a
\* record with that id and new_input's fields.
C2_UpdateThenGetItem ==
    Returned("update") =>
        LET got == Lookup(table, session, call.args.item.id)
            new == call.args.new_data
        IN /\ result.value.id = call.args.item.id
           /\ result.value.origin = new.origin
           /\ result.value.destination = new.destination
           /\ got.kind = "return"
           /\ got.value # None
           /\ got.value.id = call.args.item.id
           /\ got.value.origin = new.origin
           /\ got.value.destination = new.destination

C2_Witness ==
    /\ Returned("update")
    /\ call.args.new_data.origin # call.args.item.origin
    /\ call.args.new_data.destination # call.args.item.destination
    /\ result.value.origin = call.args.new_data.origin
    /\ Len(table) = 2

\* One step, as C3 needs it.
C3_Step ==
    /\ (Returned("delete"))' =>
          Lookup(table', session', call'.args.item.id) = Return(None)
    /\ ~(Called("create"))' =>
          \A id \in Ids :
             Lookup(table, session, id) = Return(None)
                => Lookup(table', session', id) = Return(None)

\* C3: after delete(record) has returned, get_item(record.id) is absent, and
\* an id that get_item finds absent stays absent over every call that is not
\* a create of the repository.
C3_DeleteThenAbsent == [][C3_Step]_vars

C3_Witness ==
    /\ Returned("delete")
    /\ Lookup(table, session, call.args.item.id) = Return(None)
    /\ table # <<>>

\* C4: delete returns TRUE exactly when a row with the deleted id is still
\* stored after the commit, and FALSE when the row was removed.
C4_DeleteReturnsStillFound ==
    Returned("delete") =>
        /\ result.value = TRUE <=> call.args.item.id \in IdsOf(table)
        /\ call.args.item.id \notin IdsOf(table) => result.value = FALSE

C4_Witness ==
    /\ Returned("delete")
    /\ call.args.item.id \notin IdsOf(table)
    /\ result.value = FALSE

\* C5: get_all, called after N creates have returned since the table held
\* `prior` rows and no delete in between, returns exactly prior + N outputs,
\* and the id each of those creates returned is in it exactly once.
C5_GetAllCounts ==
    Returned("get_all") =>
        /\ Len(result.value) = prior + Len(created)
        /\ \A k \in 1..Len(created) :
              Cardinality({i \in 1..Len(result.value) :
                              result.value[i].id = created[k]}) = 1

C5_Witness ==
    /\ Returned("get_all")
    /\ prior >= 1
    /\ Len(created) >= 1
    /\ Len(result.value) = prior + Len(created)

\* One step, as C6 needs it.
C6_Step ==
    (Returned("create"))' =>
        /\ result'.value.id \notin IdsOf(table)
        /\ result'.value.origin = call'.args.item.origin
        /\ result'.value.destination = call'.args.item.destination
        /\ Len(table') = Len(table) + 1
        /\ Rows(table') = Rows(table) \cup {result'.value}

\* C6: a create that returns inserts exactly one row: the returned id was the
\* id of no stored row before the call, the returned origin and destination
\* are the input's, and the table afterwards is the table before plus the
\* returned record.
C6_CreateInsertsOne == [][C6_Step]_vars

C6_Witness ==
    /\ Returned("create")
    /\ Len(table) = 2
    /\ result.value \in Rows(table)
    /\ \E i \in 1..Len(table) : table[i].id # result.value.id

\* C7: get_item(id) returns None, and raises nothing, when no stored row has
\* that id; otherwise it returns the stored row with that id.
C7_GetItemAbsentOrFound ==
    Called("get_item") =>
        /\ result.kind = "return"
        /\ IF call.args.item_id \notin IdsOf(table)
           THEN result.value = None
           ELSE /\ result.value # None
                /\ result.value.id = call.args.item_id
                /\ result.value \in Rows(table)

C7_Witness ==
    /\ Called("get_item")
    /\ result = Return(None)
    /\ table # <<>>
    /\ call.args.item_id \notin IdsOf(table)

\* C8: every method called on AbstractRepository itself raises
\* NotImplementedError.
C8_AbstractRaises ==
    call.recv = "AbstractRepository" => result = Raise("NotImplementedError")

C8_Witness ==
    /\ call.recv = "AbstractRepository"
    /\ call.method = "delete"
    /\ result.kind = "raise"

\* No two stored rows share an id.
UniqueIds(t) == \A i, j \in 1..Len(t) : t[i].id = t[j].id => i = j

\* One step, as C10 needs it.
C10_Step ==
    /\ UniqueIds(table')
    /\ (Called("get_all") \/ Called("get_item") \/ call.recv # Repo)' => table' = table
    /\ (Called("update"))' =>
          /\ Len(table') = Len(table)
          /\ \A i \in 1..Len(table) :
                /\ table'[i].id = table[i].id
                /\ table[i].id # call'.args.item.id => table'[i] = table[i]
    /\ (Called("delete"))' =>
          table' = SelectSeq(table, LAMBDA r : r.id # call'.args.item.id)
    /\ (Called("create"))' =>
          /\ Len(table') >= Len(table)
          /\ \A i \in 1..Len(table) : table'[i] = table[i]

\* C10: over every call the stored rows keep their ids and no two share one;
\* update changes only the origin and destination of the given record,
\* delete removes only the given record, create leaves the rows that were
\* stored as they are, and get_all and get_item change nothing.
C10_IdsKeptAndFrame == [][C10_Step]_vars

C10_Witness ==
    /\ Returned("update")
    /\ Len(table) = 2
    /\ \E i \in 1..2 : /\ table[i].id # call.args.item.id
                       /\ table[i].origin # call.args.new_data.origin
    /\ \E i \in 1..2 : /\ table[i].id = call.args.item.id
                       /\ table[i].origin # call.args.item.origin

\* The change the commit of the call has stored.
Committed(c, t, tt) ==
    CASE c.method = "create" ->
            /\ Len(tt) = Len(t) + 1
            /\ \E r \in Rows(tt) \ Rows(t) :
                  /\ r.origin = c.args.item.origin
                  /\ r.destination = c.args.item.destination
                  /\ Rows(tt) = Rows(t) \cup {r}
      [] c.method = "update" ->
            \E r \in Rows(tt) :
                  /\ r.id = c.args.item.id
                  /\ r.origin = c.args.new_data.origin
                  /\ r.destination = c.args.new_data.destination
      [] c.method = "delete" -> c.args.item.id \notin IdsOf(tt)

\* create, update or delete of the repository has just raised.
Failed(c, r) ==
    /\ c.recv = Repo
    /\ c.method \in {"create", "update", "delete"}
    /\ r.kind = "raise"

\* The session holds nothing a later commit could store.
NothingStaged(s) ==
    \/ ~s.active
    \/ s.new = <<>> /\ s.dirty = {} /\ s.deleted = {}

\* One step of a call that raised, as C9 states it.
C9_Step ==
    Failed(call', result') =>
        /\ call'.fault # "none" => result'.value = call'.error
        /\ table' = table
        /\ NothingStaged(session')

\* C9, as stated: whenever the session raises during create, update or
\* delete, the error reaches the caller unchanged and the stored rows are the
\* rows stored before the call, and no later call stores what the failed call
\* had staged.
C9_AtomicOrNothing == [][C9_Step]_vars

\* One step, with the raise told apart by where it happened.
C9_AmendedStep ==
    /\ Failed(call', result') =>
          /\ call'.fault # "none" => result'.value = call'.error
          /\ call'.fault \in {"none", "commit"} => table' = table
          /\ call'.fault \in {"refresh", "query"} => Committed(call', table, table')
          /\ NothingStaged(session')
    /\ (Failed(call, result) /\ call.fault \in {"none", "commit"}) => table' = table
    /\ ~session.active => table' = table /\ ~session'.active

\* C9, as the code has it: the error always reaches the caller unchanged; when
\* the session raised in or before the commit the stored rows are the rows
\* stored before the call, and stay so over every later call on the session;
\* when it raised after the commit (the refresh of create and update, the
\* re-query of delete) the change of the commit is stored.
C9_CommitOrNothing == [][C9_AmendedStep]_vars

C9_Witness ==
    /\ Failed(call, result)
    /\ call.method = "update"
    /\ call.fault = "commit"
    /\ result.value = "IntegrityError"
    /\ \E i \in 1..Len(table) :
          /\ table[i].id = call.args.item.id
          /\ table[i].origin # call.args.new_data.origin

====
